---- MODULE Spec2Model ----
(***************************************************************************)
(* A model of the NeoDB MCP server (src/src/neodb/server.py).              *)
(*                                                                         *)
(* One tool invocation is the coroutine handle_call_tool.  It runs in two  *)
(* steps: from its entry to the point where it awaits the HTTP response,   *)
(* and from the arrival of the response to its return or raise.  The       *)
(* remote service is the environment: it answers with any HTTP status and  *)
(* any JSON body, or the transport fails.                                  *)
(*                                                                         *)
(* Python values are modelled by what the code does with them:             *)
(*   - a text is a TLA+ string, built with \o as the f-strings build it;   *)
(*   - a JSON value is a record tagged with its type (t);                  *)
(*   - a dict is the sequence of its keys in insertion order, the value    *)
(*     of a key being fixed by Val (and by the field data for "data");     *)
(*   - an exception is a record of its type and message.                   *)
(***************************************************************************)
EXTENDS Integers, Sequences, FiniteSets, TLC

VARIABLES
    config,      \* server.config: api_base and access_token
    pc,          \* where the current invocation is
    name,        \* the tool name of the current invocation
    arguments,   \* the arguments of the current invocation
    url,         \* the URL of the request the invocation issued ("" if none)
    requests,    \* network requests issued by the current invocation
    response,    \* what the remote answered to the current invocation
    result,      \* the content blocks returned (texts)
    error,       \* the exception raised
    calls,       \* invocations started since process start
    sent         \* network requests issued since process start

vars == <<config, pc, name, arguments, url, requests, response, result, error, calls, sent>>

----------------------------------------------------------------------------
(* Bounds of the model *)

MaxCalls == 2    \* invocations per behaviour
MaxBooks == 2    \* books in a search response

----------------------------------------------------------------------------
(* Python values *)

NoError == [type |-> "", msg |-> ""]
Exc(type, msg) == [type |-> type, msg |-> msg]

\* a step of the coroutine ends by returning text blocks, by raising, or by
\* awaiting the response to the request it has just issued; sends counts the
\* client.get calls of the step
Return(text)   == [pc |-> "returned", result |-> <<text>>, error |-> NoError, url |-> "", sends |-> 0]
Raise(type, m) == [pc |-> "raised", result |-> <<>>, error |-> Exc(type, m), url |-> "", sends |-> 0]
Await(u)       == [pc |-> "awaiting", result |-> <<>>, error |-> NoError, url |-> u, sends |-> 1]

\* JSON values as they appear after response.json(), or as components of one
JNull       == [t |-> "null", keys |-> <<>>, data |-> <<>>, n |-> 0, s |-> ""]
JInt(i)     == [t |-> "int",  keys |-> <<>>, data |-> <<>>, n |-> i, s |-> ""]
JStr(x)     == [t |-> "str",  keys |-> <<>>, data |-> <<>>, n |-> 0, s |-> x]
JDict(k, d) == [t |-> "dict", keys |-> k,    data |-> d,    n |-> 0, s |-> ""]

\* a response body: a JSON null, a dict, or a list of elems
BNull       == [t |-> "null", keys |-> <<>>, data |-> <<>>, elems |-> <<>>]
BDict(k, d) == [t |-> "dict", keys |-> k,    data |-> d,    elems |-> <<>>]
BList(e)    == [t |-> "list", keys |-> <<>>, data |-> <<>>, elems |-> e]

Range(seq) == {seq[i] : i \in 1..Len(seq)}

\* the value the remote stores under a key
Val(k) ==
    CASE k = "username"     -> "alice"
      [] k = "display_name" -> "Alice L."
      [] k = "email"        -> "alice@example.org"
      [] k = "url"          -> "https://neodb.social/users/alice"
      [] k = "created_at"   -> "2024-01-01T00:00:00Z"
      [] k = "title"        -> "Dune"
      [] k = "author"       -> "Frank Herbert"
      [] k = "rating"       -> "8.9"
      [] k = "description"  -> "A desert planet."
      [] OTHER              -> "1"

\* dict.get(key, default) of a dict given by its keys
Get(keys, k, default) == IF k \in Range(keys) THEN Val(k) ELSE default

----------------------------------------------------------------------------
(* The inputs of an invocation and the answers of the remote *)

KnownTools == {"get-user-info", "search-books", "get-book"}
ToolNames  == KnownTools \cup {"delete-book"}

ConfigValues == {"", "https://neodb.social"}
TokenValues  == {"", "s3cret"}

ArgKeys   == {"query", "book_id"}
ArgValues == {"", "dune", "42"}

\* arguments: dict | None; a dict is a function from its keys
NoArguments == [none |-> TRUE, d |-> <<>>]
Arguments ==
    {NoArguments} \cup
    {[none |-> FALSE, d |-> f] : f \in UNION {[K -> ArgValues] : K \in SUBSET ArgKeys}}

UserFields == <<"username", "display_name", "email", "url", "created_at">>
BookFields == <<"title", "author", "rating", "description">>

\* the subsequence of seq whose elements are in S
RECURSIVE Restrict(_, _)
Restrict(seq, S) ==
    IF seq = <<>> THEN <<>>
    ELSE IF Head(seq) \in S THEN <<Head(seq)>> \o Restrict(Tail(seq), S)
    ELSE Restrict(Tail(seq), S)

UserRecords == {Restrict(UserFields, S) : S \in SUBSET Range(UserFields)}
BookRecords == {Restrict(BookFields, S) : S \in SUBSET Range(BookFields)}

\* the books of a search response: each a book record given by its keys
BookSamples == {<<>>, <<"title">>, BookFields}
BookLists   == UNION {[1..n -> BookSamples] : n \in 0..MaxBooks}

SearchKeys == {<<"data">>, <<"data", "pages", "count">>, <<"pages", "count">>}

Bodies ==
    {BNull, BList(<<>>)}
    \cup {BDict(k, <<>>) : k \in UserRecords \cup BookRecords}
    \cup {BDict(k, IF "data" \in Range(k) THEN d ELSE <<>>) : k \in SearchKeys, d \in BookLists}
    \cup {BList(<<JDict(<<"username">>, <<>>), JInt(200)>>),
          BList(<<JDict(<<"data">>, <<BookFields>>), JInt(200)>>),
          BList(<<JDict(<<>>, <<>>), JInt(200)>>),
          BList(<<JInt(7), JInt(200)>>),
          BList(<<JNull, JInt(404)>>),
          BList(<<JInt(200), JDict(<<"username">>, <<>>)>>),
          BList(<<JInt(1), JInt(2), JInt(3)>>)}

SuccessStatuses == {200, 201}
ErrorStatuses   == {400, 401, 404, 500, 503}

\* what the remote answers: an HTTP response (whose body parses as JSON or
\* not), or no response at all (network error, timeout)
NoResponse == [kind |-> "none", status |-> 0, json |-> FALSE, body |-> BNull]
Transport  == [kind |-> "transport", status |-> 0, json |-> FALSE, body |-> BNull]
Responses ==
    {Transport}
    \cup {[kind |-> "http", status |-> st, json |-> FALSE, body |-> BNull] :
             st \in SuccessStatuses \cup ErrorStatuses}
    \cup {[kind |-> "http", status |-> st, json |-> TRUE, body |-> b] :
             st \in SuccessStatuses, b \in Bodies}

----------------------------------------------------------------------------
(* make_neodb_request *)

\* the two shapes the function returns: the tuple (None, status) of the
\* except clauses, and the bare value of response.json()
Pair(st)  == [pair |-> TRUE,  status |-> st, body |-> BNull]
Single(b) == [pair |-> FALSE, status |-> 0,  body |-> b]

\* response.raise_for_status() raises for a status outside 2xx
is_success(st) == st >= 200 /\ st <= 299

make_neodb_request(resp) ==
    IF resp.kind = "transport" THEN Pair(500)
    ELSE IF ~is_success(resp.status) THEN Pair(resp.status)
    ELSE IF ~resp.json THEN Pair(500)
    ELSE Single(resp.body)

----------------------------------------------------------------------------
(* Formatting *)

format_book(book) ==
    "Title: " \o Get(book, "title", "Unknown") \o "\n"
    \o "Author: " \o Get(book, "author", "Unknown") \o "\n"
    \o "Rating: " \o Get(book, "rating", "N/A") \o "\n"
    \o "Description: " \o Get(book, "description", "No description available") \o "\n"
    \o "---"

user_text(user_data) ==
    "User Information:\n"
    \o "Username: " \o Get(user_data, "username", "Unknown") \o "\n"
    \o "Display Name: " \o Get(user_data, "display_name", "Unknown") \o "\n"
    \o "Email: " \o Get(user_data, "email", "Not provided") \o "\n"
    \o "URL: " \o Get(user_data, "url", "Not provided") \o "\n"
    \o "Account Created: " \o Get(user_data, "created_at", "Unknown") \o "\n"

\* "\n".join(texts)
RECURSIVE Join(_)
Join(texts) ==
    IF texts = <<>> THEN ""
    ELSE IF Len(texts) = 1 THEN texts[1]
    ELSE texts[1] \o "\n" \o Join(Tail(texts))

books_text(query, books) ==
    "Search results for '" \o query \o "':\n\n"
    \o Join([i \in 1..Len(books) |-> format_book(books[i])])

----------------------------------------------------------------------------
(* Python operations the handler applies to what it received *)

\* bool(v) of a JSON value
truthy(v) ==
    CASE v.t = "null" -> FALSE
      [] v.t = "int"  -> v.n # 0
      [] v.t = "str"  -> v.s # ""
      [] v.t = "dict" -> v.keys # <<>>

\* str(v), as an f-string prints it (a dict never gets that far)
str(v) ==
    CASE v.t = "null" -> "None"
      [] v.t = "int"  -> ToString(v.n)
      [] v.t = "str"  -> v.s
      [] v.t = "dict" -> "{...}"

\* type(v).__name__
type_name(v) ==
    CASE v.t = "null" -> "NoneType"
      [] v.t = "int"  -> "int"
      [] v.t = "str"  -> "str"
      [] v.t = "dict" -> "dict"

no_attribute_get(t) == "'" \o t \o "' object has no attribute 'get'"

\* a, b = value
Unpacked(a, b)    == [ok |-> TRUE, err |-> NoError, first |-> a, second |-> b]
UnpackError(t, m) == [ok |-> FALSE, err |-> Exc(t, m), first |-> JNull, second |-> JNull]
unpack_count(n) ==
    IF n < 2
    THEN UnpackError("ValueError",
             "not enough values to unpack (expected 2, got " \o ToString(n) \o ")")
    ELSE UnpackError("ValueError", "too many values to unpack (expected 2)")
unpack(res) ==
    IF res.pair THEN Unpacked(JNull, JInt(res.status))
    ELSE CASE res.body.t = "null" ->
                UnpackError("TypeError", "cannot unpack non-iterable NoneType object")
           [] res.body.t = "dict" ->
                IF Len(res.body.keys) = 2
                THEN Unpacked(JStr(res.body.keys[1]), JStr(res.body.keys[2]))
                ELSE unpack_count(Len(res.body.keys))
           [] res.body.t = "list" ->
                IF Len(res.body.elems) = 2
                THEN Unpacked(res.body.elems[1], res.body.elems[2])
                ELSE unpack_count(Len(res.body.elems))

\* status_code != 200
not_200(v) == ~(v.t = "int" /\ v.n = 200)

\* arguments.get(key): the value, or None
args_get(a, k) ==
    IF k \in DOMAIN a.d THEN [some |-> TRUE, v |-> a.d[k]] ELSE [some |-> FALSE, v |-> ""]

----------------------------------------------------------------------------
(* handle_call_tool, from its entry to the await *)

\* variant: the check passes unless both values are missing
config_missing_both(cfg) == cfg.api_base = "" /\ cfg.access_token = ""

config_missing(cfg) == cfg.api_base = "" \/ cfg.access_token = ""

\* variant: only an absent argument counts as missing, an empty one passes
missing_absent_only(v) == ~v.some

\* not query, not book_id
missing(v) == ~v.some \/ v.v = ""

\* variant: an unknown name is reported as a text result
unknown_tool_text(n) == Return("Unknown tool: " \o n)

unknown_tool(n) == Raise("ValueError", "Unknown tool: " \o n)

search_books_start(cfg, a) ==
    IF a.none THEN Raise("AttributeError", no_attribute_get("NoneType"))
    ELSE IF missing(args_get(a, "query")) THEN Raise("ValueError", "Missing query parameter")
    ELSE Await(cfg.api_base \o "/api/catalog/search?query=" \o args_get(a, "query").v \o "&page=1")

get_book_start(cfg, a) ==
    IF a.none THEN Raise("AttributeError", no_attribute_get("NoneType"))
    ELSE IF missing(args_get(a, "book_id")) THEN Raise("ValueError", "Missing book_id parameter")
    ELSE Await(cfg.api_base \o "/api/book/" \o args_get(a, "book_id").v)

call_tool_start(cfg, n, a) ==
    IF config_missing(cfg)
    THEN Return("Server configuration missing API base URL or access token")
    ELSE IF n = "get-user-info" THEN Await(cfg.api_base \o "/api/me")
    ELSE IF n = "search-books" THEN search_books_start(cfg, a)
    ELSE IF n = "get-book" THEN get_book_start(cfg, a)
    ELSE unknown_tool(n)

----------------------------------------------------------------------------
(* handle_call_tool, from the response to the return *)

\* variant: no status-specific message
user_error_message_generic(status_code) ==
    "Request failed with status code: " \o str(status_code)

user_error_message(status_code) ==
    IF status_code.t = "int" /\ status_code.n = 401 THEN "Unauthorized"
    ELSE "Request failed with status code: " \o str(status_code)

search_error_message(status_code) ==
    IF status_code.t = "int" /\ status_code.n = 400 THEN "Bad request"
    ELSE "Request failed with status code: " \o str(status_code)

get_user_info_finish(res) ==
    LET u == unpack(res) IN
    IF ~u.ok THEN Raise(u.err.type, u.err.msg)
    ELSE IF not_200(u.second) THEN
        IF u.second.t = "dict" THEN Raise("TypeError", "unhashable type: 'dict'")
        ELSE Return(user_error_message(u.second))
    ELSE IF ~truthy(u.first) THEN Return("Failed to retrieve user information")
    ELSE IF u.first.t # "dict" THEN Raise("AttributeError", no_attribute_get(type_name(u.first)))
    ELSE Return(user_text(u.first.keys))

search_books_finish(query, res) ==
    LET u == unpack(res) IN
    IF ~u.ok THEN Raise(u.err.type, u.err.msg)
    ELSE IF not_200(u.second) THEN
        IF u.second.t = "dict" THEN Raise("TypeError", "unhashable type: 'dict'")
        ELSE Return(search_error_message(u.second))
    ELSE IF ~truthy(u.first) THEN Return("Failed to search books")
    ELSE IF u.first.t # "dict" THEN Raise("AttributeError", no_attribute_get(type_name(u.first)))
    ELSE LET books == IF "data" \in Range(u.first.keys) THEN u.first.data ELSE <<>> IN
         IF books = <<>> THEN Return("No books found for query: " \o query)
         ELSE Return(books_text(query, books))

get_book_finish(book_id, res) ==
    IF res.pair THEN Raise("AttributeError", no_attribute_get("tuple"))
    ELSE IF res.body.t = "null" \/ (res.body.keys = <<>> /\ res.body.elems = <<>>)
    THEN Return("Failed to retrieve book with ID: " \o book_id)
    ELSE IF res.body.t = "list" THEN Raise("AttributeError", no_attribute_get("list"))
    ELSE Return(format_book(res.body.keys))

\* variant: a failed request is issued once more
call_tool_finish_retry(n, a, res) ==
    LET out == IF n = "get-user-info" THEN get_user_info_finish(res)
               ELSE IF n = "search-books"
               THEN search_books_finish(args_get(a, "query").v, res)
               ELSE get_book_finish(args_get(a, "book_id").v, res)
    IN [out EXCEPT !.sends = IF res.pair THEN 1 ELSE 0]

call_tool_finish(n, a, res) ==
    IF n = "get-user-info" THEN get_user_info_finish(res)
    ELSE IF n = "search-books" THEN search_books_finish(args_get(a, "query").v, res)
    ELSE get_book_finish(args_get(a, "book_id").v, res)

----------------------------------------------------------------------------
(* The state machine *)

Configs == [api_base : ConfigValues, access_token : TokenValues]

\* main has stored the two command-line arguments in server.config
Init ==
    /\ config \in Configs
    /\ pc = "idle"
    /\ name = ""
    /\ arguments = NoArguments
    /\ url = ""
    /\ requests = 0
    /\ response = NoResponse
    /\ result = <<>>
    /\ error = NoError
    /\ calls = 0
    /\ sent = 0

\* the host calls a tool: the handler runs until it returns, raises, or
\* awaits the response to its request
handle_call_tool(n, a) ==
    /\ pc # "awaiting"
    /\ calls < MaxCalls
    /\ LET out == call_tool_start(config, n, a) IN
        /\ pc' = out.pc
        /\ result' = out.result
        /\ error' = out.error
        /\ url' = out.url
        /\ requests' = out.sends
        /\ sent' = sent + out.sends
    /\ name' = n
    /\ arguments' = a
    /\ response' = NoResponse
    /\ calls' = calls + 1
    /\ UNCHANGED config

\* the request ends (response or failure) and the handler runs to its end
handle_call_tool_resume(resp) ==
    /\ pc = "awaiting"
    /\ LET out == call_tool_finish(name, arguments, make_neodb_request(resp)) IN
        /\ pc' = out.pc
        /\ result' = out.result
        /\ error' = out.error
        /\ requests' = requests + out.sends
        /\ sent' = sent + out.sends
    /\ response' = resp
    /\ UNCHANGED <<config, name, arguments, url, calls>>

Next ==
    \/ \E n \in ToolNames, a \in Arguments : handle_call_tool(n, a)
    \/ \E resp \in Responses : handle_call_tool_resume(resp)

Spec == Init /\ [][Next]_vars

TypeOK ==
    /\ config \in Configs
    /\ pc \in {"idle", "awaiting", "returned", "raised"}
    /\ requests \in 0..1
    /\ calls \in 0..MaxCalls

----------------------------------------------------------------------------
(* Vocabulary of the properties.  The cases are described from the state   *)
(* (configuration, inputs, the remote's answer), not by the operators of   *)
(* the handler.                                                            *)

\* text contains the word w
Contains(text, w) ==
    \E i \in 1..(Len(text) - Len(w) + 1) : SubSeq(text, i, i + Len(w) - 1) = w

ConfigPresent == config.api_base # "" /\ config.access_token # ""
Finished      == pc \in {"returned", "raised"}
Answered      == Finished /\ response # NoResponse

\* the argument k is empty or absent in the arguments mapping
EmptyOrAbsent(k) ==
    ~arguments.none /\ (k \notin DOMAIN arguments.d \/ arguments.d[k] = "")

\* the request failed: an HTTP error status, or no usable response
RequestFailed ==
    \/ response.kind = "transport"
    \/ response.kind = "http" /\ response.status \in ErrorStatuses
    \/ response.kind = "http" /\ ~response.json
\* the status a failed request ends with: the HTTP error status, or the
\* synthetic 500
FailureStatus ==
    IF response.kind = "http" /\ response.status \in ErrorStatuses
    THEN response.status ELSE 500

\* the remote answered 200 with a JSON object
Ok200Dict ==
    /\ response.kind = "http" /\ response.status = 200 /\ response.json
    /\ response.body.t = "dict"

InvalidArgumentErrors ==
    {Exc("ValueError", "Missing query parameter"),
     Exc("ValueError", "Missing book_id parameter")}
UnknownToolError == Exc("ValueError", "Unknown tool: " \o name)

----------------------------------------------------------------------------
(* Properties *)

\* C1: an invocation made while api_base or access_token is empty, whatever
\* the tool name and the arguments, returns exactly one text block that
\* contains the word "configuration", raises nothing, and issues no request.
C1_MissingConfiguration ==
    (calls > 0 /\ ~ConfigPresent) =>
        /\ pc = "returned"
        /\ Len(result) = 1
        /\ Contains(result[1], "configuration")
        /\ error = NoError
        /\ requests = 0 /\ sent = 0 /\ url = ""

C1_Witness ==
    /\ config.api_base # "" /\ config.access_token = ""
    /\ pc = "returned" /\ name = "delete-book" /\ arguments = NoArguments
    /\ Len(result) = 1

C3_UnknownToolAlways ==
    (calls > 0 /\ name \notin KnownTools) =>
        /\ pc = "raised" /\ error = UnknownToolError
        /\ result = <<>> /\ requests = 0

\* C3 amended: with configuration present, an invocation with a name that is
\* not one of the three tools fails with the unknown-tool error; no text is
\* returned and no request is issued.
C3_UnknownTool ==
    (calls > 0 /\ ConfigPresent /\ name \notin KnownTools) =>
        /\ pc = "raised" /\ error = UnknownToolError
        /\ result = <<>> /\ requests = 0 /\ url = "" /\ response = NoResponse

C3_Witness ==
    /\ ConfigPresent /\ name = "delete-book" /\ pc = "raised"
    /\ error = Exc("ValueError", "Unknown tool: delete-book")

\* C4: with configuration present, when the request of get-user-info or
\* search-books ends with a status other than 200 (an HTTP error status, or
\* the synthetic 500 of a transport failure), the invocation returns exactly
\* one text block and raises nothing: "Unauthorized" for 401 on get-user-info,
\* "Bad request" for 400 on search-books, "Request failed with status code:
\* {status}" otherwise.
C4_ErrorStatusText ==
    (Answered /\ name \in {"get-user-info", "search-books"} /\ RequestFailed) =>
        /\ pc = "returned" /\ error = NoError
        /\ result = << IF name = "get-user-info" /\ FailureStatus = 401 THEN "Unauthorized"
                       ELSE IF name = "search-books" /\ FailureStatus = 400 THEN "Bad request"
                       ELSE "Request failed with status code: " \o ToString(FailureStatus) >>

C4_Witness ==
    /\ ConfigPresent /\ name = "get-user-info" /\ pc = "returned"
    /\ response.kind = "http" /\ response.status = 401
    /\ result = <<"Unauthorized">>

\* C5: with configuration present, when /api/me answers 200 with a non-empty
\* user record holding any subset of the five fields, get-user-info returns
\* one text block with the five labeled lines, each field at its value or at
\* its default; a record holding only username shows "Display Name: Unknown"
\* and "Email: Not provided".
C5_UserSummary ==
    (Answered /\ name = "get-user-info" /\ Ok200Dict
        /\ response.body.keys \in UserRecords \ {<<>>}) =>
        /\ pc = "returned"
        /\ result = <<user_text(response.body.keys)>>
        /\ response.body.keys = <<"username">> =>
              /\ Contains(result[1], "Display Name: Unknown")
              /\ Contains(result[1], "Email: Not provided")

\* C6: with configuration present and a non-empty query q, when the search
\* endpoint answers 200 with a body whose data list is empty, search-books
\* returns exactly one text block "No books found for query: {q}".
C6_NoBooksFound ==
    (Answered /\ name = "search-books" /\ Ok200Dict
        /\ "data" \in Range(response.body.keys) /\ response.body.data = <<>>) =>
        /\ pc = "returned"
        /\ result = <<"No books found for query: " \o arguments.d["query"]>>

\* C7: with configuration present and a non-empty book_id, when the request of
\* get-book fails (an HTTP error status or a transport failure), the
\* invocation returns exactly one text block "Failed to retrieve book with
\* ID: {book_id}" and raises nothing.
C7_BookRetrievalFailed ==
    (Answered /\ name = "get-book" /\ RequestFailed) =>
        /\ pc = "returned" /\ error = NoError
        /\ result = <<"Failed to retrieve book with ID: " \o arguments.d["book_id"]>>

\* C8: an invocation with configuration present, a known tool name and valid
\* arguments ends, for every outcome of the remote request, by returning text
\* blocks and never by raising.
C8_RemoteOutcomesAreText ==
    (Answered /\ ConfigPresent /\ name \in KnownTools) =>
        /\ pc = "returned" /\ error = NoError /\ Len(result) >= 1

\* C9: the request executor returns a (body, status) pair in every outcome:
\* (parsed body, 200) on success, (none, status) on an HTTP error status,
\* (none, 500) on any other failure; so a caller that destructures the result
\* obtains an integer status.
C9_ExecutorReturnsPair ==
    Answered =>
        LET r == make_neodb_request(response) IN
        /\ r.pair
        /\ r.status = (IF RequestFailed THEN FailureStatus ELSE 200)
        /\ name \in {"get-user-info", "search-books"} =>
              unpack(r).ok /\ unpack(r).second.t = "int"

\* C10: an invocation issues at most one network request over its whole
\* execution, on every path; a failed request is not retried and nothing is
\* sent once the invocation has returned or raised, so the requests sent
\* since process start never exceed the invocations started.
C10_AtMostOneRequest ==
    /\ requests <= 1
    /\ sent <= calls
    /\ (Finished /\ response = NoResponse) => requests = 0
    /\ pc = "awaiting" => requests = 1

C10_Witness ==
    /\ calls = 2 /\ sent = 2 /\ requests = 1
    /\ pc = "returned" /\ response = Transport

====
